---- MODULE Spec2Model ----
(***************************************************************************)
(* Model of send_digest.py: one run of main() (primary adapter, fallback   *)
(* adapter, renderer, mail send) and the renderer called twice in one run. *)
(* Time is counted in whole hours since a Monday 00:00 UTC.                *)
(***************************************************************************)
EXTENDS Integers, Sequences, FiniteSets, TLC

(* Longest provider response / record list explored. *)
MaxDocs == 2

MISSING == "<missing>"      \* a JSON field that is absent from an entry
NONE == "<none>"            \* Python None / JSON null

(* ───── Constants & Configuration ───── *)
NOW_UTC == 60               \* Wednesday 12:00 UTC of week 0
WEEKS_AHEAD == 16
START_UTC == NOW_UTC - (2 * 24)
FOUR_WEEKS_UTC == NOW_UTC + (4 * 168)
LIMIT_UTC == NOW_UTC + (WEEKS_AHEAD * 168)
VANDENBERG_PAD_IDS == {"5e9e4502f509092b78566f87"}
OtherPadId == "5e9e4502f509094188566f88"
RequiredEnv == {"SMTP_USER", "DEST_EMAIL", "SMTP_HOST", "SMTP_PASS"}

(* America/Los_Angeles: daylight time (UTC-7) until the switch, then       *)
(* standard time (UTC-8).                                                  *)
DstEndUtc == NOW_UTC + (6 * 168) + 93
UtcOffset(dt) == IF dt < DstEndUtc THEN 0 - 7 ELSE 0 - 8
TzName(dt) == IF dt < DstEndUtc THEN "PDT" ELSE "PST"

(* ISO strings: well-formed ones carry an hour count, others do not parse. *)
Iso(n) == [kind |-> "iso", hours |-> n]
BadIso == [kind |-> "bad", hours |-> 0]
ParsesOk(iso) == iso.kind = "iso"
ToDt(iso) == iso.hours

(* loc = dt.astimezone(tz); weekday 0=Mon .. 6=Sun *)
AsTimezone(dt) == dt + UtcOffset(dt)
Weekday(loc) == (loc \div 24) % 7
Hour(loc) == loc % 24
FmtLocal(dt) ==
    LET loc == AsTimezone(dt)
    IN  [time_str |-> [weekday |-> Weekday(loc), day |-> loc \div 24, hour |-> Hour(loc)],
         tz_name |-> TzName(dt)]

InWindowOpen(dt) == START_UTC <= dt
InWindow(dt) == START_UTC <= dt /\ dt <= LIMIT_UTC

(* ───── Slugs and links ───── *)
(* _slug on the names that occur in the model *)
Slug(s) ==
    CASE s = "Transporter-12" -> "transporter-12"
      [] s = "Starlink Group 15-3" -> "starlink-group-15-3"
      [] s = "Starlink 6-9" -> "starlink-6-9"
      [] s = "Falcon 9 Block 5" -> "falcon-9-block-5"
      [] s = "Unknown Rocket" -> "unknown-rocket"
      [] OTHER -> s

RocketSlug(rocket) ==
    CASE rocket = "Falcon 9" -> "falcon-9"
      [] rocket = "Falcon Heavy" -> "falcon-heavy"
      [] rocket = "Starship" -> "starship"
      [] OTHER -> Slug(rocket)

(* re.search(r"(\d+-\d+)", mission) for missions containing "starlink" *)
StarlinkMatch(mission) ==
    CASE mission = "Starlink Group 15-3" -> "15-3"
      [] mission = "Starlink 6-9" -> "6-9"
      [] OTHER -> NONE

SxSlug(mission, slug) ==
    IF StarlinkMatch(mission) # NONE
    THEN <<"sl", StarlinkMatch(mission)>>
    ELSE IF slug # NONE THEN <<"slug", slug>> ELSE <<"slug", Slug(mission)>>

RlDeep(mission, rocket) == <<"mission", RocketSlug(rocket), Slug(mission)>>
RlSchedule == <<"launch-schedule", "spacex", "">>

(* _links: valid is the outcome of _validate_url on the deep link *)
Links(mission, rocket, slug, valid) ==
    [sx |-> SxSlug(mission, slug),
     rl |-> IF valid THEN RlDeep(mission, rocket) ELSE RlSchedule]

(* ───── Rocket-name cache ───── *)
RIDs == {"r1", "r2"}
RocketApiName(rid) == IF rid = "r1" THEN "Falcon 9" ELSE "Falcon Heavy"
EmptyCache == [r \in RIDs |-> NONE]

CacheHitNever(cache, rid) == FALSE
CacheHit(cache, rid) == cache[rid] # NONE

CacheStoreWrong(cache, rid, name) == [cache EXCEPT ![rid] = "Unknown Rocket"]
CacheStore(cache, rid, name) == [cache EXCEPT ![rid] = name]

(* ───── Provider responses explored ───── *)
(* 139: Saturday 12:00 PDT of week 0; 900: a Wednesday 05:00 PDT after the *)
(* four-week mark.                                                         *)
GoodDoc(t) ==
    [name |-> "Transporter-12", date_utc |-> Iso(t), rocket |-> "r1",
     slug |-> "transporter-12", launchpad |-> "5e9e4502f509092b78566f87"]

DocSet ==
    { GoodDoc(START_UTC - 1), GoodDoc(139), GoodDoc(900), GoodDoc(LIMIT_UTC + 1),
      [GoodDoc(START_UTC) EXCEPT !.rocket = MISSING],
      [GoodDoc(LIMIT_UTC) EXCEPT !.rocket = "r2", !.name = "Starlink Group 15-3", !.slug = NONE],
      [GoodDoc(139) EXCEPT !.launchpad = OtherPadId],
      [GoodDoc(139) EXCEPT !.date_utc = BadIso] }

GoodEntry(t) ==
    [name |-> [delim |-> TRUE, left |-> "Falcon 9 Block 5", right |-> "Starlink 6-9"],
     window_start |-> Iso(t), pad_name |-> "Space Launch Complex 4E",
     pad_location |-> "Vandenberg SFB, CA, USA"]

EntrySet ==
    { GoodEntry(START_UTC - 1), GoodEntry(139), GoodEntry(LIMIT_UTC), GoodEntry(LIMIT_UTC + 1),
      [GoodEntry(START_UTC) EXCEPT !.name = [delim |-> TRUE, left |-> "", right |-> "Starlink 6-9"]],
      [GoodEntry(900) EXCEPT !.name = [delim |-> FALSE, left |-> "", right |-> "Transporter-12"],
                             !.pad_location = MISSING],
      [GoodEntry(139) EXCEPT !.pad_name = "Space Launch Complex 40"],
      [GoodEntry(139) EXCEPT !.window_start = BadIso] }

SeqsUpTo(S, n) == UNION { [1..k -> S] : k \in 0..n }

(* An HTTP exchange either fails (network, status, malformed body) or      *)
(* delivers a list of entries.                                             *)
Failed == [ok |-> FALSE, docs |-> <<>>]
Responses(S) == {Failed} \cup { [ok |-> TRUE, docs |-> ds] : ds \in SeqsUpTo(S, MaxDocs) }

(* ───── Data Fetchers ───── *)
(* _get_pad_info: cached pad data, or one request whose success fills the  *)
(* cache; a failed request yields "Unknown" and leaves the cache alone.    *)
GetPadInfo(pads, ok) ==
    IF pads # NONE THEN [locality |-> pads, pads |-> pads, reqs |-> 0]
    ELSE IF ok THEN [locality |-> "Vandenberg Space Force Base",
                     pads |-> "Vandenberg Space Force Base", reqs |-> 1]
    ELSE [locality |-> "Unknown", pads |-> NONE, reqs |-> 1]

RECURSIVE SpacexLoop(_, _, _, _)
SpacexLoop(docs, padOk, i, acc) ==
    IF i > Len(docs) \/ acc.raised THEN acc
    ELSE LET d == docs[i] IN
         IF ~ParsesOk(d.date_utc)
         THEN [acc EXCEPT !.raised = TRUE]
         ELSE IF ~InWindow(ToDt(d.date_utc))
         THEN SpacexLoop(docs, padOk, i + 1, [acc EXCEPT !.excluded = @ + 1])
         ELSE IF d.launchpad \notin VANDENBERG_PAD_IDS
         THEN SpacexLoop(docs, padOk, i + 1, acc)
         ELSE LET info == GetPadInfo(acc.pads, padOk[i])
                  rec == [name |-> d.name, date_utc |-> d.date_utc, rocket |-> d.rocket,
                          rocket_name |-> MISSING, slug |-> d.slug,
                          location |-> info.locality]
              IN  SpacexLoop(docs, padOk, i + 1,
                             [acc EXCEPT !.up = Append(@, rec), !.pads = info.pads,
                                         !.padReqs = @ + info.reqs])

(* _spacex: first is the answer to the pad-filtered query, broad the answer *)
(* to the broader query issued when the first one has no documents.         *)
Spacex(first, broad, padOk) ==
    LET second == first.ok /\ first.docs = <<>>
        resp == IF second THEN broad ELSE first
        loop == SpacexLoop(resp.docs, padOk, 1,
                           [up |-> <<>>, pads |-> NONE, padReqs |-> 0, excluded |-> 0,
                            raised |-> FALSE])
    IN  [ret |-> IF ~resp.ok \/ loop.raised THEN <<>> ELSE loop.up,
         excluded |-> loop.excluded,
         caught |-> ~resp.ok \/ loop.raised,
         launchReqs |-> IF second THEN 2 ELSE 1,
         padReqs |-> IF resp.ok THEN loop.padReqs ELSE 0]

(* re.search(r"slc-?4[eE]", pad_name) or "4e" in pad_name or "4w" in pad_name *)
PadMatch(pad_name) ==
    CASE pad_name = "Space Launch Complex 4E" -> TRUE
      [] pad_name = "Space Launch Complex 4W" -> TRUE
      [] pad_name = "SLC-4E" -> TRUE
      [] OTHER -> FALSE

(* name_raw.split("|", 1) with the "Falcon 9" default, both parts stripped *)
SplitName(name_raw) ==
    IF name_raw.delim THEN <<name_raw.left, name_raw.right>>
    ELSE <<"Falcon 9", name_raw.right>>

(* location.split(",")[0].strip() with the "Vandenberg" default *)
LocationHead(loc) ==
    CASE loc = MISSING -> "Vandenberg"
      [] loc = "Vandenberg SFB, CA, USA" -> "Vandenberg SFB"
      [] OTHER -> loc

RECURSIVE LaunchLibraryLoop(_, _, _)
LaunchLibraryLoop(raw, i, acc) ==
    IF i > Len(raw) \/ acc.raised THEN acc
    ELSE LET l == raw[i] IN
         IF ~ParsesOk(l.window_start)
         THEN [acc EXCEPT !.raised = TRUE]
         ELSE IF ~InWindow(ToDt(l.window_start))
         THEN LaunchLibraryLoop(raw, i + 1, [acc EXCEPT !.excluded = @ + 1])
         ELSE IF ~PadMatch(l.pad_name)
         THEN LaunchLibraryLoop(raw, i + 1, acc)
         ELSE LET parts == SplitName(l.name)
                  rec == [name |-> parts[2], date_utc |-> l.window_start, rocket |-> MISSING,
                          rocket_name |-> parts[1], slug |-> NONE,
                          location |-> LocationHead(l.pad_location)]
              IN  LaunchLibraryLoop(raw, i + 1, [acc EXCEPT !.up = Append(@, rec)])

LaunchLibrary(resp) ==
    LET loop == LaunchLibraryLoop(resp.docs, 1, [up |-> <<>>, excluded |-> 0, raised |-> FALSE])
    IN  [ret |-> IF ~resp.ok \/ loop.raised THEN <<>> ELSE loop.up,
         excluded |-> loop.excluded,
         caught |-> ~resp.ok \/ loop.raised]

(* ───── Email Rendering ───── *)
IsHighlight(wd, hr) ==
    \/ (wd = 4 /\ hr >= 13)
    \/ (wd = 5)
    \/ (wd = 6 /\ hr < 18)

UNBOUND == [weekday |-> 0 - 1, hour |-> 0 - 1]     \* wd, hr before any assignment

NoTime == [weekday |-> 0, day |-> 0, hour |-> 0]
Line(tag, title) ==
    [tag |-> tag, title |-> title, hl |-> FALSE, time_str |-> NoTime, tz_name |-> "",
     summary |-> <<"", "", "">>, sx |-> <<"", "">>, rl |-> <<"", "", "">>]
ItemLine(tag, hl, fmt, summary, links) ==
    [tag |-> tag, title |-> "", hl |-> hl, time_str |-> fmt.time_str, tz_name |-> fmt.tz_name,
     summary |-> summary, sx |-> links.sx, rl |-> links.rl]

Truthy(v) == v # MISSING /\ v # NONE /\ v # ""

(* _rocket_name: ok is the outcome of the request made on a cache miss *)
RocketName(cache, rid, ok) ==
    IF CacheHit(cache, rid)
    THEN [name |-> cache[rid], cache |-> cache, requested |-> FALSE]
    ELSE IF ok
    THEN [name |-> RocketApiName(rid), cache |-> CacheStore(cache, rid, RocketApiName(rid)),
          requested |-> TRUE]
    ELSE [name |-> "Unknown Rocket", cache |-> cache, requested |-> TRUE]

(* d.get("rocket_name") or _rocket_name(d["rocket"]) *)
ResolveRocket(d, cache, ok) ==
    IF Truthy(d.rocket_name)
    THEN [exc |-> "none", name |-> d.rocket_name, cache |-> cache, requested |-> FALSE]
    ELSE IF d.rocket = MISSING
    THEN [exc |-> "KeyError", name |-> "", cache |-> cache, requested |-> FALSE]
    ELSE LET r == RocketName(cache, d.rocket, ok)
         IN  [exc |-> "none", name |-> r.name, cache |-> r.cache, requested |-> r.requested]

(* wd, hr used by the loop body of a section: the "Next 4 Weeks" body      *)
(* assigns them from the item's own local time, the "After That" body      *)
(* reads whatever the function's locals hold.                              *)
LoopWdHr(section, own, held) == IF section = "next" THEN own ELSE held

(* One pass of a section's for-loop body over ds[i..]; k is the number of  *)
(* items rendered before ds[i], look/probe the outcomes of the requests.   *)
RECURSIVE RenderLoop(_, _, _, _, _, _, _)
RenderLoop(ds, i, k, section, look, probe, st) ==
    IF i > Len(ds) \/ st.exc # "none" THEN st
    ELSE LET d == ds[i]
             dt == ToDt(d.date_utc)
             mission == d.name
             res == ResolveRocket(d, st.cache, look[k + i])
             st1 == [st EXCEPT !.cache = res.cache,
                               !.lookLog = IF res.requested
                                           THEN [@ EXCEPT ![d.rocket] = Append(@, look[k + i])]
                                           ELSE @,
                               !.journal = IF res.requested
                                           THEN @ \cup {<<"rocket", <<d.rocket>>, look[k + i]>>}
                                           ELSE @]
         IN  IF res.exc # "none" THEN [st1 EXCEPT !.exc = res.exc]
             ELSE LET rocket == res.name
                      fmt == FmtLocal(dt)
                      links == Links(mission, rocket, d.slug, probe[k + i])
                      st2 == [st1 EXCEPT !.probes = @ + 1,
                                         !.journal = @ \cup {<<"probe", RlDeep(mission, rocket),
                                                               probe[k + i]>>}]
                      loc_dt == AsTimezone(dt)
                      own == [weekday |-> Weekday(loc_dt), hour |-> Hour(loc_dt)]
                      wdhr == LoopWdHr(section, own, st.wdhr)
                  IN  IF wdhr = UNBOUND THEN [st2 EXCEPT !.exc = "UnboundLocalError"]
                      ELSE LET is_highlight == IsHighlight(wdhr.weekday, wdhr.hour)
                               summary == <<mission, rocket, d.location>>
                           IN  RenderLoop(ds, i + 1, k, section, look, probe,
                                   [st2 EXCEPT !.wdhr = wdhr,
                                               !.txt = Append(@, ItemLine("item", is_highlight, fmt, summary, links)),
                                               !.html = Append(@, ItemLine("li", is_highlight, fmt, summary, links))])

NotAfter(d) == ToDt(d.date_utc) <= FOUR_WEEKS_UTC
IsAfter(d) == ToDt(d.date_utc) > FOUR_WEEKS_UTC

RenderSection(ds, k, section, title, look, probe, st) ==
    IF ds = <<>> \/ st.exc # "none" THEN st
    ELSE RenderLoop(ds, 1, k, section, look, probe,
                    [st EXCEPT !.txt = Append(@, Line("heading", title)),
                               !.html = Append(@, Line("h3", title))])

(* _render: look[j] and probe[j] are the outcomes of the rocket lookup and  *)
(* of the link probe made for the j-th rendered item.                       *)
Render(items, cache, look, probe) ==
    LET st0 == [exc |-> "none", txt |-> <<>>, html |-> <<Line("ul", "")>>, cache |-> cache,
                lookLog |-> [r \in RIDs |-> <<>>], journal |-> {}, probes |-> 0,
                wdhr |-> UNBOUND]
    IN  IF items = <<>>
        THEN [st0 EXCEPT !.txt = <<Line("msg", "No Vandenberg launches"), Line("footer", "")>>,
                         !.html = <<Line("p", "No Vandenberg launches"), Line("footer", "")>>]
        ELSE LET next_4_weeks == SelectSeq(items, NotAfter)
                 after_that == SelectSeq(items, IsAfter)
                 st1 == RenderSection(next_4_weeks, 0, "next", "Next 4 Weeks", look, probe, st0)
                 st2 == RenderSection(after_that, Len(next_4_weeks), "after", "After That",
                                      look, probe, st1)
             IN  IF st2.exc # "none" THEN [st2 EXCEPT !.txt = <<>>, !.html = <<>>]
                 ELSE [st2 EXCEPT !.txt = Append(@, Line("footer", "")),
                                  !.html = Append(@, Line("footer", ""))]

(* ───── One run of main() ───── *)
VARIABLES
    pc,          \* position of main(): start, fallback, render, send, done, failed
    env,         \* names of the environment variables that are set
    smtp,        \* whether the mail relay accepts ("accept") or rejects ("reject")
    upcoming,    \* main's local list of records
    primaryRet,  \* whether _spacex has returned, and the list it returned
    excluded,    \* entries the adapter that ran last dropped as outside the time window
    caught,      \* an adapter caught an exception and returned []
    reqs,        \* number of HTTP requests issued, by endpoint
    ROCKETS,     \* _ROCKETS
    lookLog,     \* per rocket id, the outcomes of the lookup requests issued
    rendered,    \* outcome of the (first) _render call
    rendered2,   \* outcome of a second _render call on the same list
    sent,        \* number of messages the relay accepted
    failure      \* exception that ended the run ("none" while there is none)

vars == <<pc, env, smtp, upcoming, primaryRet, excluded, caught, reqs, ROCKETS, lookLog,
          rendered, rendered2, sent, failure>>

EnvChoices ==
    { RequiredEnv \cup {"SMTP_PORT"} } \cup { RequiredEnv \ {k} : k \in RequiredEnv }

NoReqs == [pads |-> 0, launches |-> 0, padinfo |-> 0, ll |-> 0, rocket |-> 0, probe |-> 0]
Pending == [exc |-> "pending", txt |-> <<>>, html |-> <<>>, journal |-> {}]
Outcomes == [1..MaxDocs -> BOOLEAN]

(* The relay is consulted only when every required variable is set, so    *)
(* its disposition is left at "accept" in the other environments.          *)
Init ==
    /\ pc = "start"
    /\ env \in EnvChoices
    /\ smtp \in (IF RequiredEnv \subseteq env THEN {"accept", "reject"} ELSE {"accept"})
    /\ upcoming = <<>>
    /\ primaryRet = [returned |-> FALSE, ret |-> <<>>]
    /\ excluded = 0
    /\ caught = FALSE
    /\ reqs = NoReqs
    /\ ROCKETS = EmptyCache
    /\ lookLog = [r \in RIDs |-> <<>>]
    /\ rendered = Pending
    /\ rendered2 = Pending
    /\ sent = 0
    /\ failure = "none"

(* if not upcoming: *)
NeedsFallbackAlways(up) == TRUE
NeedsFallback(up) == Len(up) = 0

(* upcoming = _spacex() *)
CallSpacex ==
    /\ pc = "start"
    /\ \E first \in Responses(DocSet), padOk \in Outcomes :
         \E broad \in (IF first.ok /\ first.docs = <<>> THEN Responses(DocSet) ELSE {Failed}) :
            LET r == Spacex(first, broad, padOk)
            IN  /\ upcoming' = r.ret
                /\ primaryRet' = [returned |-> TRUE, ret |-> r.ret]
                /\ excluded' = r.excluded
                /\ caught' = r.caught
                /\ reqs' = [reqs EXCEPT !.pads = @ + 1, !.launches = @ + r.launchReqs,
                                        !.padinfo = @ + r.padReqs]
                /\ pc' = IF NeedsFallback(r.ret) THEN "fallback" ELSE "render"
    /\ UNCHANGED <<env, smtp, ROCKETS, lookLog, rendered, rendered2, sent, failure>>

(* upcoming = _launch_library() *)
CallLaunchLibrary ==
    /\ pc = "fallback"
    /\ \E resp \in Responses(EntrySet) :
          LET r == LaunchLibrary(resp)
          IN  /\ upcoming' = r.ret
              /\ excluded' = r.excluded
              /\ caught' = (caught \/ r.caught)
    /\ reqs' = [reqs EXCEPT !.ll = @ + 1]
    /\ pc' = "render"
    /\ UNCHANGED <<env, smtp, primaryRet, ROCKETS, lookLog, rendered, rendered2, sent, failure>>

(* txt, html = _render(upcoming); an exception raised there ends main() *)
CallRender ==
    /\ pc = "render"
    /\ \E look \in Outcomes, probe \in Outcomes :
          LET r == Render(upcoming, ROCKETS, look, probe)
          IN  /\ rendered' = [exc |-> r.exc, txt |-> r.txt, html |-> r.html, journal |-> r.journal]
              /\ ROCKETS' = r.cache
              /\ lookLog' = r.lookLog
              /\ reqs' = [reqs EXCEPT !.rocket = @ + Len(r.lookLog["r1"]) + Len(r.lookLog["r2"]),
                                      !.probe = @ + r.probes]
              /\ pc' = IF r.exc = "none" THEN "send" ELSE "failed"
              /\ failure' = r.exc
    /\ UNCHANGED <<env, smtp, upcoming, primaryRet, excluded, caught, rendered2, sent>>

(* _send(txt, html) *)
CallSend ==
    /\ pc = "send"
    /\ IF ~(RequiredEnv \subseteq env)
       THEN /\ failure' = "MissingConfig"
            /\ pc' = "failed"
            /\ sent' = sent
       ELSE IF smtp = "accept"
       THEN /\ sent' = sent + 1
            /\ pc' = "done"
            /\ failure' = failure
       ELSE /\ failure' = "SMTPException"
            /\ pc' = "failed"
            /\ sent' = sent
    /\ UNCHANGED <<env, smtp, upcoming, primaryRet, excluded, caught, reqs, ROCKETS, lookLog,
                   rendered, rendered2>>

Next == CallSpacex \/ CallLaunchLibrary \/ CallRender \/ CallSend

Spec == Init /\ [][Next]_vars

(* ───── _render called twice in one run on the same list ───── *)
Rec(t) ==
    [name |-> "Transporter-12", date_utc |-> Iso(t), rocket |-> "r1", rocket_name |-> MISSING,
     slug |-> "transporter-12", location |-> "Vandenberg Space Force Base"]

RecordSet ==
    { Rec(START_UTC - 1), Rec(139), Rec(900),
      [Rec(LIMIT_UTC) EXCEPT !.rocket = "r2", !.name = "Starlink Group 15-3", !.slug = NONE],
      [Rec(139) EXCEPT !.rocket = MISSING, !.rocket_name = "Falcon 9 Block 5", !.slug = NONE],
      [Rec(START_UTC) EXCEPT !.rocket = MISSING] }

InitRender ==
    /\ pc = "r0"
    /\ env = RequiredEnv
    /\ smtp = "accept"
    /\ upcoming \in SeqsUpTo(RecordSet, MaxDocs)
    /\ primaryRet = [returned |-> FALSE, ret |-> <<>>]
    /\ excluded = 0
    /\ caught = FALSE
    /\ reqs = NoReqs
    /\ ROCKETS = EmptyCache
    /\ lookLog = [r \in RIDs |-> <<>>]
    /\ rendered = Pending
    /\ rendered2 = Pending
    /\ sent = 0
    /\ failure = "none"

RenderFirst ==
    /\ pc = "r0"
    /\ \E look \in Outcomes, probe \in Outcomes :
          LET r == Render(upcoming, ROCKETS, look, probe)
          IN  /\ rendered' = [exc |-> r.exc, txt |-> r.txt, html |-> r.html, journal |-> r.journal]
              /\ ROCKETS' = r.cache
              /\ lookLog' = r.lookLog
    /\ pc' = "r1"
    /\ UNCHANGED <<env, smtp, upcoming, primaryRet, excluded, caught, reqs, rendered2, sent, failure>>

RenderSecond ==
    /\ pc = "r1"
    /\ \E look \in Outcomes, probe \in Outcomes :
          LET r == Render(upcoming, ROCKETS, look, probe)
          IN  /\ rendered2' = [exc |-> r.exc, txt |-> r.txt, html |-> r.html, journal |-> r.journal]
              /\ ROCKETS' = r.cache
              /\ lookLog' = [rid \in RIDs |-> lookLog[rid] \o r.lookLog[rid]]
    /\ pc' = "r2"
    /\ UNCHANGED <<env, smtp, upcoming, primaryRet, excluded, caught, reqs, rendered, sent, failure>>

NextRender == RenderFirst \/ RenderSecond

SpecRender == InitRender /\ [][NextRender]_vars

(* ───── Properties ───── *)
Terminal == pc \in {"done", "failed"}
RenderReturned == rendered.exc = "none"
ItemLines(lines, tag) == SelectSeq(lines, LAMBDA l : l.tag = tag)
LaunchTime(d) == ToDt(d.date_utc)

(* C1: the fallback adapter is invoked only after the primary adapter has  *)
(* returned, and only if it returned zero records; when the primary        *)
(* returned one or more records the fallback is never invoked.             *)
C1_FallbackOnlyAfterEmptyPrimary ==
    /\ reqs.ll <= 1
    /\ (reqs.ll > 0 \/ pc = "fallback") => (primaryRet.returned /\ Len(primaryRet.ret) = 0)
    /\ (primaryRet.returned /\ Len(primaryRet.ret) >= 1) => reqs.ll = 0

C1_Witness ==
    /\ pc = "render"
    /\ reqs.ll = 1
    /\ primaryRet.returned
    /\ Len(primaryRet.ret) = 0
    /\ Len(upcoming) >= 1

(* C2: every run with the configuration present and an accepting relay     *)
(* sends exactly one email whatever the sources return; a run ends with no *)
(* email only through a transport or configuration error; no run sends     *)
(* more than one email.                                                    *)
C2_ExactlyOneEmail ==
    /\ sent <= 1
    /\ (Terminal /\ RequiredEnv \subseteq env /\ smtp = "accept") => sent = 1
    /\ (Terminal /\ sent = 0) => failure \in {"MissingConfig", "SMTPException"}

(* C3: an error of a source (failed exchange, malformed or missing field   *)
(* in a returned entry) is recovered locally: the adapter's result is      *)
(* empty, the primary's error leads to the fallback, and no exception for  *)
(* a missing field ends the run before _send.                              *)
C3_SourceErrorRecovered ==
    /\ (caught /\ reqs.ll = 0) => (primaryRet.ret = <<>> /\ pc = "fallback")
    /\ failure # "KeyError"

(* C4: a run that ends with a missing-configuration failure has issued no  *)
(* request to the primary provider, the fallback provider, the rocket      *)
(* lookup or the link probe.                                               *)
C4_ConfigFailureBeforeFetch ==
    (pc = "failed" /\ failure = "MissingConfig") => reqs = NoReqs

(* C5 as stated: at most one lookup request per rocket id per run, whether *)
(* the lookup succeeds or fails.                                           *)
C5_OneLookupPerRocket ==
    \A rid \in RIDs : Len(lookLog[rid]) <= 1

(* C5 amended: no lookup request for a rocket id follows a successful one  *)
(* (so at most one succeeds), at most one request is made per record with  *)
(* that id, and a completed rendering of a record with that id made at     *)
(* least one.                                                              *)
C5_OneSuccessfulLookupPerRocket ==
    \A rid \in RIDs :
        /\ \A i \in 1..Len(lookLog[rid]) : lookLog[rid][i] => i = Len(lookLog[rid])
        /\ Len(lookLog[rid]) <= Cardinality({ j \in 1..Len(upcoming) : upcoming[j].rocket = rid })
        /\ (RenderReturned /\ \E j \in 1..Len(upcoming) : upcoming[j].rocket = rid)
              => Len(lookLog[rid]) >= 1

C5_Witness ==
    /\ RenderReturned
    /\ Cardinality({ j \in 1..Len(upcoming) : upcoming[j].rocket = "r1" }) >= 2
    /\ lookLog["r1"] = <<TRUE>>

(* C6: the list main() passes to _render is sorted ascending by launch     *)
(* time, for every response of the chosen provider.                        *)
C6_SortedForRender ==
    pc = "render" =>
        \A i, j \in 1..Len(upcoming) : i < j => LaunchTime(upcoming[i]) <= LaunchTime(upcoming[j])

(* C7: every record an adapter returns has START_UTC <= t <= LIMIT_UTC,    *)
(* t being the time the program reads from the record.                     *)
C7_RecordsInsideWindow ==
    pc # "start" =>
        /\ \A i \in 1..Len(upcoming) :
              /\ ParsesOk(upcoming[i].date_utc)
              /\ START_UTC <= LaunchTime(upcoming[i])
              /\ LaunchTime(upcoming[i]) <= LIMIT_UTC
        /\ \A i \in 1..Len(primaryRet.ret) :
              /\ START_UTC <= LaunchTime(primaryRet.ret[i])
              /\ LaunchTime(primaryRet.ret[i]) <= LIMIT_UTC

C7_Witness ==
    /\ pc = "render"
    /\ excluded >= 1
    /\ \E i \in 1..Len(upcoming) : LaunchTime(upcoming[i]) = LIMIT_UTC

(* C8: for every non-empty list of well-formed records _render returns     *)
(* bodies in which each input record appears exactly once, in text and in   *)
(* HTML, also when every record is later than the four-week horizon.        *)
WellFormed(d) == ParsesOk(d.date_utc) /\ (d.rocket # MISSING \/ Truthy(d.rocket_name))
Shows(line, d) ==
    /\ line.summary[1] = d.name
    /\ line.summary[3] = d.location
    /\ line.time_str = FmtLocal(LaunchTime(d)).time_str
C8_RenderNeverFilters ==
    (/\ rendered.exc # "pending"
     /\ upcoming # <<>>
     /\ \A i \in 1..Len(upcoming) : WellFormed(upcoming[i]))
    => /\ RenderReturned
       /\ Len(ItemLines(rendered.txt, "item")) = Len(upcoming)
       /\ Len(ItemLines(rendered.html, "li")) = Len(upcoming)
       /\ \A i \in 1..Len(upcoming) :
             /\ \E k \in 1..Len(rendered.txt) : Shows(rendered.txt[k], upcoming[i])
             /\ \E k \in 1..Len(rendered.html) : Shows(rendered.html[k], upcoming[i])

(* C9 as stated: two _render calls on the same list in one run give the    *)
(* same result for every outcome of the network calls they make.           *)
SameResult(a, b) == a.exc = b.exc /\ a.txt = b.txt /\ a.html = b.html
C9_RenderIdempotent ==
    pc = "r2" => SameResult(rendered, rendered2)

(* C9 amended: the two calls give the same result (same bodies, or the     *)
(* same exception) when every request made for the same link or the same   *)
(* rocket id had the same outcome throughout both calls.                   *)
Consistent(J) == \A a \in J, b \in J : (a[1] = b[1] /\ a[2] = b[2]) => a[3] = b[3]
C9_RenderIdempotentStableNetwork ==
    (pc = "r2" /\ Consistent(rendered.journal \cup rendered2.journal))
        => SameResult(rendered, rendered2)

C9_Witness ==
    /\ pc = "r2"
    /\ RenderReturned
    /\ Len(upcoming) >= 2
    /\ <<"rocket", <<"r1">>, TRUE>> \in rendered.journal
    /\ \A e \in rendered2.journal : e[1] = "probe"
    /\ Consistent(rendered.journal \cup rendered2.journal)
    /\ SameResult(rendered, rendered2)

(* C10: in both sections an item is marked highlighted, in text and in     *)
(* HTML, exactly when its own local time is Friday 13:00 or later, any     *)
(* time Saturday, or Sunday before 18:00.                                  *)
OwnHighlight(line) ==
    line.hl <=> \/ (line.time_str.weekday = 4 /\ line.time_str.hour >= 13)
                \/ line.time_str.weekday = 5
                \/ (line.time_str.weekday = 6 /\ line.time_str.hour < 18)
C10_HighlightOwnTime ==
    RenderReturned =>
        /\ \A k \in 1..Len(rendered.txt) : rendered.txt[k].tag = "item" => OwnHighlight(rendered.txt[k])
        /\ \A k \in 1..Len(rendered.html) : rendered.html[k].tag = "li" => OwnHighlight(rendered.html[k])

====
